---- MODULE Spec2Model ----
(***************************************************************************)
(* Model of the umee-cosmwasm proxy contract (src/src/contract.rs).        *)
(*                                                                         *)
(* The contract keeps one persisted record, State{owner}, and three entry  *)
(* points: instantiate, execute and query.  execute either changes the     *)
(* owner (guarded by sender = owner) or wraps its argument into a message  *)
(* for the chain; query either reads the owner or forwards a request to    *)
(* the chain through deps.querier.raw_query and decodes the reply.         *)
(*                                                                         *)
(* A forwarded query is modelled in two steps, the call (QueryCall) and    *)
(* the host's reply (QueryReturn): the handler is blocked inside raw_query *)
(* between the two and no other entry point runs.                          *)
(***************************************************************************)
EXTENDS Integers, Sequences, FiniteSets, TLC

\* ------------------------------------------------------------------ bounds
NumAddrs == 3      \* addresses that send messages / may own the contract
NumParams == 2     \* distinct parameter values of a message or query
NumVals == 2       \* distinct payloads (or error details) the host answers

Addrs == 1..NumAddrs
Params == 1..NumParams
Vals == 1..NumVals

NoAddr == 0        \* no owner stored (before instantiate)
NoParams == 0      \* Option::None of a params field

\* ------------------------------------------------------------ persisted state
\* cw2::set_contract_version(storage, CONTRACT_NAME, CONTRACT_VERSION)
CONTRACT_NAME == "crates.io:umee-cosmwasm"
CONTRACT_VERSION == "CARGO_PKG_VERSION"

NoContractInfo == [contract |-> "", version |-> ""]

\* the storage before instantiate ran: neither item is saved
EmptyStorage ==
  [saved |-> FALSE, state |-> [owner |-> NoAddr], contract_info |-> NoContractInfo]

\* ------------------------------------------------------------------ errors
\* ContractError (crate::error), as used by contract.rs
NoError == [kind |-> "none", val |-> ""]
Unauthorized == [kind |-> "Unauthorized", val |-> ""]
CustomError(val) == [kind |-> "CustomError", val |-> val]

\* StdError: generic_err carries a message made of a fixed prefix and the
\* rendering of the underlying error (detail); parse_err names the target type.
NoStdError == [kind |-> "none", msg |-> "", detail |-> 0]
generic_err(prefix, detail) == [kind |-> "generic_err", msg |-> prefix, detail |-> detail]
parse_err(target) == [kind |-> "parse_err", msg |-> target, detail |-> 0]
not_found(item) == [kind |-> "not_found", msg |-> item, detail |-> 0]

\* ------------------------------------------------------------------ binaries
\* A Binary holds JSON: `shape` names the struct whose fields the JSON has
\* ("garbage" when it has none), `val` its content, and `extra` tells whether
\* it carries anything a typed decode drops (unknown fields, formatting).
NoBinary == [shape |-> "none", val |-> 0, extra |-> FALSE]
Binary(shape, val, extra) == [shape |-> shape, val |-> val, extra |-> extra]

\* a typed response value (BorrowedResponse, OwnerResponse, ...)
NoValue == [type |-> "none", val |-> 0]
Value(type, val) == [type |-> type, val |-> val]

\* cosmwasm_std::to_binary: serialises a typed value; never fails on these types
to_binary(value) == Binary(value.type, value.val, FALSE)

\* cosmwasm_std::from_binary::<T>: succeeds when the JSON has T's fields
from_binary(type, binary) ==
  IF binary.shape = type
    THEN [ok |-> TRUE, err |-> NoStdError, value |-> Value(type, binary.val)]
    ELSE [ok |-> FALSE, err |-> parse_err(type), value |-> NoValue]

\* ------------------------------------------------------- chain messages
\* Identifiers a StructUmeeMsg carries in assigned_msg
ASSIGNED_MSG_LEND == 1
ASSIGNED_MSG_WITHDRAW == 2

\* umee_types::StructUmeeMsg: the wire format of a message for the chain's
\* leverage module: the identifier and one optional params field per message
StructUmeeMsg(assigned_msg, lend, withdraw) ==
  [assigned_msg |-> assigned_msg, lend_asset |-> lend, withdraw_asset |-> withdraw]

\* StructUmeeMsg::lend_asset / StructUmeeMsg::withdraw_asset
StructUmeeMsg_lend_asset(lend_asset_params) ==
  StructUmeeMsg(ASSIGNED_MSG_LEND, lend_asset_params, NoParams)

StructUmeeMsg_withdraw_asset(withdraw_asset_params) ==
  StructUmeeMsg(ASSIGNED_MSG_WITHDRAW, NoParams, withdraw_asset_params)

\* StructUmeeMsg::valid: the field the identifier announces is present
valid(umee_msg) ==
  CASE umee_msg.assigned_msg = ASSIGNED_MSG_LEND -> umee_msg.lend_asset # NoParams
    [] umee_msg.assigned_msg = ASSIGNED_MSG_WITHDRAW -> umee_msg.withdraw_asset # NoParams
    [] OTHER -> FALSE

\* StructUmeeMsg::assigned_str: the name of the identifier
assigned_str(umee_msg) ==
  CASE umee_msg.assigned_msg = ASSIGNED_MSG_LEND -> "lend_asset"
    [] umee_msg.assigned_msg = ASSIGNED_MSG_WITHDRAW -> "withdraw_asset"
    [] OTHER -> "unrecognized_msg"

\* ------------------------------------------------------------- ExecuteMsg
ChangeOwner(new_owner) == [tag |-> "change_owner", new_owner |-> new_owner]
ExecChainMsg(umee_msg) == [tag |-> "chain", msg |-> umee_msg]
ExecUmeeLeverageMsg(variant, params) ==
  [tag |-> "umee", module |-> "leverage", variant |-> variant, params |-> params]
ExecLendAssetMsg(params) == [tag |-> "lend_asset", params |-> params]

\* UmeeMsgLeverage as contract.rs matches on it
UmeeMsgLeverageVariants == {"lend_asset", "withdraw_asset"}

\* ---------------------------------------------------------------- Response
\* Response attributes: a key with a text value, or with an address
Attr(key, value) == [key |-> key, value |-> value]
AddrAttr(key, addr) == [key |-> key, addr |-> addr]

\* Result<Response<StructUmeeMsg>, ContractError>.  An Err carries no
\* Response, hence neither attributes nor messages.
Ok(attributes, messages) ==
  [ok |-> TRUE, err |-> NoError, attributes |-> attributes, messages |-> messages]
Err(err) ==
  [ok |-> FALSE, err |-> err, attributes |-> <<>>, messages |-> <<>>]

\* the outcome of an entry point that holds DepsMut: its result and the
\* storage it leaves behind
Outcome(result, storage) ==
  [ok |-> result.ok, err |-> result.err, attributes |-> result.attributes,
   messages |-> result.messages, storage |-> storage]

\* ------------------------------------------------------------ entry points
\* fault: instantiate stores a fixed address instead of the sender
instantiate_FixedOwner(deps, info) ==
  Outcome(Ok(<<Attr("method", "instantiate"), AddrAttr("owner", info.sender)>>, <<>>),
          [saved |-> TRUE, state |-> [owner |-> 1],
           contract_info |-> [contract |-> CONTRACT_NAME, version |-> CONTRACT_VERSION]])

\* instantiate: the sender becomes the owner
instantiate(deps, info) ==
  LET state == [owner |-> info.sender]
      storage == [saved |-> TRUE, state |-> state,
                  contract_info |-> [contract |-> CONTRACT_NAME,
                                     version |-> CONTRACT_VERSION]]
  IN Outcome(Ok(<<Attr("method", "instantiate"), AddrAttr("owner", info.sender)>>,
                <<>>),
             storage)

\* fault: the address named as new owner may claim the ownership itself
try_change_owner_Claim(deps, info, new_owner) ==
  IF info.sender # deps.storage.state.owner /\ info.sender # new_owner
    THEN Outcome(Err(Unauthorized), deps.storage)
    ELSE Outcome(Ok(<<Attr("method", "change_owner")>>, <<>>),
                 [deps.storage EXCEPT !.state.owner = new_owner])

\* fault: the closure changes a copy and the record is never saved
try_change_owner_NoSave(deps, info, new_owner) ==
  IF info.sender # deps.storage.state.owner
    THEN Outcome(Err(Unauthorized), deps.storage)
    ELSE Outcome(Ok(<<Attr("method", "change_owner")>>, <<>>), deps.storage)

\* fault: the check is skipped when the transfer names the current owner
try_change_owner_NoOp(deps, info, new_owner) ==
  IF info.sender # deps.storage.state.owner /\ new_owner # deps.storage.state.owner
    THEN Outcome(Err(Unauthorized), deps.storage)
    ELSE Outcome(Ok(<<Attr("method", "change_owner")>>, <<>>),
                 [deps.storage EXCEPT !.state.owner = new_owner])

\* try_change_owner: STATE.update loads the record, runs the closure and
\* saves its result; when the closure fails nothing is written
try_change_owner(deps, info, new_owner) ==
  IF ~deps.storage.saved
    THEN Outcome(Err([kind |-> "Std", val |-> "not_found"]), deps.storage)
  ELSE IF info.sender # deps.storage.state.owner
    THEN Outcome(Err(Unauthorized), deps.storage)
    ELSE Outcome(Ok(<<Attr("method", "change_owner")>>, <<>>),
                 [deps.storage EXCEPT !.state.owner = new_owner])

\* fault: the message is rebuilt from the field its identifier announces
msg_chain_Rebuilt(umee_msg) ==
  IF ~valid(umee_msg)
    THEN Err(CustomError("invalid umee msg"))
    ELSE Ok(<<Attr("method", assigned_str(umee_msg))>>,
            <<IF umee_msg.assigned_msg = ASSIGNED_MSG_LEND
                THEN StructUmeeMsg_lend_asset(umee_msg.lend_asset)
                ELSE StructUmeeMsg_withdraw_asset(umee_msg.withdraw_asset)>>)

\* msg_chain sends any message to the chain native modules
msg_chain(umee_msg) ==
  IF ~valid(umee_msg)
    THEN Err(CustomError("invalid umee msg"))
    ELSE Ok(<<Attr("method", assigned_str(umee_msg))>>, <<umee_msg>>)

\* execute_lend sends the leverage module a LendAsset message
execute_lend(lend_asset_params) ==
  Ok(<<Attr("method", "lend_asset")>>,
     <<StructUmeeMsg_lend_asset(lend_asset_params)>>)

\* fault: the response is built without add_message
execute_withdraw_NoMessage(withdraw_asset_params) ==
  Ok(<<Attr("method", "lend_asset")>>, <<>>)

\* execute_withdraw sends the leverage module a WithdrawAsset message
execute_withdraw(withdraw_asset_params) ==
  Ok(<<Attr("method", "lend_asset")>>,
     <<StructUmeeMsg_withdraw_asset(withdraw_asset_params)>>)

\* execute_leverage handles every message of the leverage module
execute_leverage(execute_leverage_msg) ==
  CASE execute_leverage_msg.variant = "lend_asset" ->
         execute_lend(execute_leverage_msg.params)
    [] execute_leverage_msg.variant = "withdraw_asset" ->
         execute_withdraw(execute_leverage_msg.params)

\* fault: LendAsset is handed deps and records its sender as owner
execute_LendWrites(deps, info, msg) ==
  CASE msg.tag = "change_owner" -> try_change_owner(deps, info, msg.new_owner)
    [] msg.tag = "chain" -> Outcome(msg_chain(msg.msg), deps.storage)
    [] msg.tag = "umee" -> Outcome(execute_leverage(msg), deps.storage)
    [] msg.tag = "lend_asset" ->
         Outcome(execute_lend(msg.params),
                 [deps.storage EXCEPT !.state.owner = info.sender])

\* fault: the leverage arm is open to the stored owner only
execute_OwnerOnly(deps, info, msg) ==
  CASE msg.tag = "change_owner" -> try_change_owner(deps, info, msg.new_owner)
    [] msg.tag = "chain" -> Outcome(msg_chain(msg.msg), deps.storage)
    [] msg.tag = "umee" ->
         IF info.sender # deps.storage.state.owner
         THEN Outcome(Err(Unauthorized), deps.storage)
         ELSE Outcome(execute_leverage(msg), deps.storage)
    [] msg.tag = "lend_asset" -> Outcome(execute_lend(msg.params), deps.storage)

\* execute: the dispatcher of ExecuteMsg.  Only try_change_owner is handed
\* deps; the other handlers cannot reach the storage.
execute(deps, info, msg) ==
  CASE msg.tag = "change_owner" -> try_change_owner(deps, info, msg.new_owner)
    [] msg.tag = "chain" -> Outcome(msg_chain(msg.msg), deps.storage)
    [] msg.tag = "umee" -> Outcome(execute_leverage(msg), deps.storage)
    [] msg.tag = "lend_asset" -> Outcome(execute_lend(msg.params), deps.storage)

\* ---------------------------------------------------------------- queries
\* umee_types::StructUmeeQuery::<kind>(params): the chain-native request of
\* one query of the leverage or oracle module
StructUmeeQuery(kind, params) == [kind |-> kind, params |-> params]

\* cosmwasm_std::QueryRequest: Custom wraps a StructUmeeQuery; Bank stands
\* for the requests of the chain's standard modules
Custom(umee_query) == [variant |-> "custom", query |-> umee_query]
Bank(params) == [variant |-> "bank", query |-> [kind |-> "all_balances", params |-> params]]

\* QueryMsg
GetOwner == [tag |-> "get_owner"]
QueryChainMsg(request) == [tag |-> "chain", request |-> request]
QueryUmeeMsg(module, variant, params) ==
  [tag |-> "umee", module |-> module, variant |-> variant, params |-> params]
QueryDirectMsg(tag, params) == [tag |-> tag, params |-> params]

\* the reply of the host to one raw_query call:
\* SystemResult<ContractResult<Binary>>
SystemErr(detail) == [kind |-> "system_err", detail |-> detail, value |-> NoBinary]
ContractErr(detail) == [kind |-> "contract_err", detail |-> detail, value |-> NoBinary]
HostOk(value) == [kind |-> "ok", detail |-> 0, value |-> value]

\* StdResult<Binary> and StdResult<T>, each with the raw requests the call
\* handed to the host, in order
QOk(data, sent) == [ok |-> TRUE, err |-> NoStdError, data |-> data, sent |-> sent]
QErr(err, sent) == [ok |-> FALSE, err |-> err, data |-> NoBinary, sent |-> sent]
TOk(value, sent) == [ok |-> TRUE, err |-> NoStdError, value |-> value, sent |-> sent]
TErr(err, sent) == [ok |-> FALSE, err |-> err, value |-> NoValue, sent |-> sent]

\* cosmwasm_std::to_vec: the JSON bytes of a request; these types always
\* serialise
to_vec(request) == [ok |-> TRUE, raw |-> [json |-> request]]

\* deps.querier.raw_query: one call to the host, which answers it
raw_query(querier, raw) == querier.reply

\* `to_binary(&handler(..)?)`: an error of the handler is returned as it is,
\* a value is serialised
to_binary_of(result) ==
  IF ~result.ok THEN QErr(result.err, result.sent)
                ELSE QOk(to_binary(result.value), result.sent)

\* query_owner returns the current owner of the contract from the state
query_owner(deps) ==
  IF ~deps.storage.saved
    THEN TErr(not_found("State"), <<>>)
    ELSE TOk(Value("OwnerResponse", deps.storage.state.owner), <<>>)

\* fault: a system error is answered by asking the host a second time
query_chain_Retry(deps, request) ==
  LET raw == to_vec(request).raw
      reply == raw_query(deps.querier, raw)
  IN CASE reply.kind = "system_err" ->
            QErr(generic_err("Querier system error", reply.detail), <<raw, raw>>)
       [] reply.kind = "contract_err" ->
            QErr(generic_err("Querier contract error", reply.detail), <<raw>>)
       [] reply.kind = "ok" -> QOk(reply.value, <<raw>>)

\* fault: both error arms carry the same text
query_chain_SameText(deps, request) ==
  LET raw == to_vec(request).raw
      reply == raw_query(deps.querier, raw)
  IN CASE reply.kind = "system_err" ->
            QErr(generic_err("Querier system error", reply.detail), <<raw>>)
       [] reply.kind = "contract_err" ->
            QErr(generic_err("Querier system error", reply.detail), <<raw>>)
       [] reply.kind = "ok" -> QOk(reply.value, <<raw>>)

\* query_chain queries any available query of the chain native modules
query_chain(deps, request) ==
  LET ser == to_vec(request)
  IN IF ~ser.ok
       THEN QErr(generic_err("Serializing QueryRequest", 0), <<>>)
       ELSE LET reply == raw_query(deps.querier, ser.raw)
                sent == <<ser.raw>>
            IN CASE reply.kind = "system_err" ->
                      QErr(generic_err("Querier system error", reply.detail), sent)
                 [] reply.kind = "contract_err" ->
                      QErr(generic_err("Querier contract error", reply.detail), sent)
                 [] reply.kind = "ok" -> QOk(reply.value, sent)

\* query_borrowed: asks the chain for the Borrowed query of the leverage module
query_borrowed(deps, borrowed_params) ==
  LET request == Custom(StructUmeeQuery("borrowed", borrowed_params))
      res == query_chain(deps, request)
  IN IF ~res.ok
       THEN TErr(res.err, res.sent)
       ELSE LET dec == from_binary("BorrowedResponse", res.data)
            IN IF ~dec.ok THEN TErr(dec.err, res.sent)
                          ELSE TOk(dec.value, res.sent)

\* fault: a reply that does not decode is answered with the default response
query_registered_tokens_Default(deps, registered_tokens_params) ==
  LET request == Custom(StructUmeeQuery("registered_tokens", registered_tokens_params))
      res == query_chain(deps, request)
  IN IF ~res.ok
       THEN TErr(res.err, res.sent)
       ELSE LET dec == from_binary("RegisteredTokensResponse", res.data)
            IN IF ~dec.ok THEN TOk(Value("RegisteredTokensResponse", 0), res.sent)
                          ELSE TOk(dec.value, res.sent)

\* query_registered_tokens: asks the chain for all registered tokens
query_registered_tokens(deps, registered_tokens_params) ==
  LET request == Custom(StructUmeeQuery("registered_tokens", registered_tokens_params))
      res == query_chain(deps, request)
  IN IF ~res.ok
       THEN TErr(res.err, res.sent)
       ELSE LET dec == from_binary("RegisteredTokensResponse", res.data)
            IN IF ~dec.ok THEN TErr(dec.err, res.sent)
                          ELSE TOk(dec.value, res.sent)

\* query_leverage_parameters: asks the chain for the leverage module's parameters
query_leverage_parameters(deps, leverage_parameters_params) ==
  LET request == Custom(StructUmeeQuery("leverage_parameters", leverage_parameters_params))
      res == query_chain(deps, request)
  IN IF ~res.ok
       THEN TErr(res.err, res.sent)
       ELSE LET dec == from_binary("LeverageParametersResponse", res.data)
            IN IF ~dec.ok THEN TErr(dec.err, res.sent)
                          ELSE TOk(dec.value, res.sent)

\* query_borrowed_value: asks the chain for the value borrowed
query_borrowed_value(deps, borrowed_value_params) ==
  LET request == Custom(StructUmeeQuery("borrowed_value", borrowed_value_params))
      res == query_chain(deps, request)
  IN IF ~res.ok
       THEN TErr(res.err, res.sent)
       ELSE LET dec == from_binary("BorrowedValueResponse", res.data)
            IN IF ~dec.ok THEN TErr(dec.err, res.sent)
                          ELSE TOk(dec.value, res.sent)

\* query_supplied: asks the chain for the amount supplied
query_supplied(deps, supplied_params) ==
  LET request == Custom(StructUmeeQuery("supplied", supplied_params))
      res == query_chain(deps, request)
  IN IF ~res.ok
       THEN TErr(res.err, res.sent)
       ELSE LET dec == from_binary("SuppliedResponse", res.data)
            IN IF ~dec.ok THEN TErr(dec.err, res.sent)
                          ELSE TOk(dec.value, res.sent)

\* query_supplied_value: asks the chain for the value supplied
query_supplied_value(deps, supplied_value_params) ==
  LET request == Custom(StructUmeeQuery("supplied_value", supplied_value_params))
      res == query_chain(deps, request)
  IN IF ~res.ok
       THEN TErr(res.err, res.sent)
       ELSE LET dec == from_binary("SuppliedValueResponse", res.data)
            IN IF ~dec.ok THEN TErr(dec.err, res.sent)
                          ELSE TOk(dec.value, res.sent)

\* query_available_borrow: asks the chain for the amount available to borrow
query_available_borrow(deps, available_borrow_params) ==
  LET request == Custom(StructUmeeQuery("available_borrow", available_borrow_params))
      res == query_chain(deps, request)
  IN IF ~res.ok
       THEN TErr(res.err, res.sent)
       ELSE LET dec == from_binary("AvailableBorrowResponse", res.data)
            IN IF ~dec.ok THEN TErr(dec.err, res.sent)
                          ELSE TOk(dec.value, res.sent)

\* query_borrow_apy: asks the chain for the borrow APY
query_borrow_apy(deps, borrow_apy_params) ==
  LET request == Custom(StructUmeeQuery("borrow_apy", borrow_apy_params))
      res == query_chain(deps, request)
  IN IF ~res.ok
       THEN TErr(res.err, res.sent)
       ELSE LET dec == from_binary("BorrowAPYResponse", res.data)
            IN IF ~dec.ok THEN TErr(dec.err, res.sent)
                          ELSE TOk(dec.value, res.sent)

\* query_supply_apy: asks the chain for the supply APY
query_supply_apy(deps, supply_apy_params) ==
  LET request == Custom(StructUmeeQuery("supply_apy", supply_apy_params))
      res == query_chain(deps, request)
  IN IF ~res.ok
       THEN TErr(res.err, res.sent)
       ELSE LET dec == from_binary("SupplyAPYResponse", res.data)
            IN IF ~dec.ok THEN TErr(dec.err, res.sent)
                          ELSE TOk(dec.value, res.sent)

\* query_market_size: asks the chain for the market size
query_market_size(deps, market_size_params) ==
  LET request == Custom(StructUmeeQuery("market_size", market_size_params))
      res == query_chain(deps, request)
  IN IF ~res.ok
       THEN TErr(res.err, res.sent)
       ELSE LET dec == from_binary("MarketSizeResponse", res.data)
            IN IF ~dec.ok THEN TErr(dec.err, res.sent)
                          ELSE TOk(dec.value, res.sent)

\* query_token_market_size: asks the chain for the token market size
query_token_market_size(deps, token_market_size_params) ==
  LET request == Custom(StructUmeeQuery("token_market_size", token_market_size_params))
      res == query_chain(deps, request)
  IN IF ~res.ok
       THEN TErr(res.err, res.sent)
       ELSE LET dec == from_binary("TokenMarketSizeResponse", res.data)
            IN IF ~dec.ok THEN TErr(dec.err, res.sent)
                          ELSE TOk(dec.value, res.sent)

\* query_reserve_amount: asks the chain for the reserve amount
query_reserve_amount(deps, reserve_amount_params) ==
  LET request == Custom(StructUmeeQuery("reserve_amount", reserve_amount_params))
      res == query_chain(deps, request)
  IN IF ~res.ok
       THEN TErr(res.err, res.sent)
       ELSE LET dec == from_binary("ReserveAmountResponse", res.data)
            IN IF ~dec.ok THEN TErr(dec.err, res.sent)
                          ELSE TOk(dec.value, res.sent)

\* query_collateral: asks the chain for the collateral
query_collateral(deps, collateral_params) ==
  LET request == Custom(StructUmeeQuery("collateral", collateral_params))
      res == query_chain(deps, request)
  IN IF ~res.ok
       THEN TErr(res.err, res.sent)
       ELSE LET dec == from_binary("CollateralResponse", res.data)
            IN IF ~dec.ok THEN TErr(dec.err, res.sent)
                          ELSE TOk(dec.value, res.sent)

\* query_collateral_value: asks the chain for the collateral value
query_collateral_value(deps, collateral_value_params) ==
  LET request == Custom(StructUmeeQuery("collateral_value", collateral_value_params))
      res == query_chain(deps, request)
  IN IF ~res.ok
       THEN TErr(res.err, res.sent)
       ELSE LET dec == from_binary("CollateralValueResponse", res.data)
            IN IF ~dec.ok THEN TErr(dec.err, res.sent)
                          ELSE TOk(dec.value, res.sent)

\* query_exchange_rates: asks the chain for the exchange rates of the oracle module
query_exchange_rates(deps, exchange_rates_params) ==
  LET request == Custom(StructUmeeQuery("exchange_rates", exchange_rates_params))
      res == query_chain(deps, request)
  IN IF ~res.ok
       THEN TErr(res.err, res.sent)
       ELSE LET dec == from_binary("ExchangeRatesResponse", res.data)
            IN IF ~dec.ok THEN TErr(dec.err, res.sent)
                          ELSE TOk(dec.value, res.sent)

\* fault: CollateralValue is routed to the handler of Collateral
query_leverage_Misrouted(deps, msg) ==
  CASE msg.variant = "borrowed" ->
         to_binary_of(query_borrowed(deps, msg.params))
    [] msg.variant = "registered_tokens" ->
         to_binary_of(query_registered_tokens(deps, msg.params))
    [] msg.variant = "leverage_parameters" ->
         to_binary_of(query_leverage_parameters(deps, msg.params))
    [] msg.variant = "borrowed_value" ->
         to_binary_of(query_borrowed_value(deps, msg.params))
    [] msg.variant = "supplied" ->
         to_binary_of(query_supplied(deps, msg.params))
    [] msg.variant = "supplied_value" ->
         to_binary_of(query_supplied_value(deps, msg.params))
    [] msg.variant = "available_borrow" ->
         to_binary_of(query_available_borrow(deps, msg.params))
    [] msg.variant = "borrow_apy" ->
         to_binary_of(query_borrow_apy(deps, msg.params))
    [] msg.variant = "supply_apy" ->
         to_binary_of(query_supply_apy(deps, msg.params))
    [] msg.variant = "market_size" ->
         to_binary_of(query_market_size(deps, msg.params))
    [] msg.variant = "token_market_size" ->
         to_binary_of(query_token_market_size(deps, msg.params))
    [] msg.variant = "reserve_amount" ->
         to_binary_of(query_reserve_amount(deps, msg.params))
    [] msg.variant = "collateral" ->
         to_binary_of(query_collateral(deps, msg.params))
    [] msg.variant = "collateral_value" ->
         to_binary_of(query_collateral(deps, msg.params))

\* query_leverage contains the available queries of the leverage module
query_leverage(deps, msg) ==
  CASE msg.variant = "borrowed" ->
         to_binary_of(query_borrowed(deps, msg.params))
    [] msg.variant = "registered_tokens" ->
         to_binary_of(query_registered_tokens(deps, msg.params))
    [] msg.variant = "leverage_parameters" ->
         to_binary_of(query_leverage_parameters(deps, msg.params))
    [] msg.variant = "borrowed_value" ->
         to_binary_of(query_borrowed_value(deps, msg.params))
    [] msg.variant = "supplied" ->
         to_binary_of(query_supplied(deps, msg.params))
    [] msg.variant = "supplied_value" ->
         to_binary_of(query_supplied_value(deps, msg.params))
    [] msg.variant = "available_borrow" ->
         to_binary_of(query_available_borrow(deps, msg.params))
    [] msg.variant = "borrow_apy" ->
         to_binary_of(query_borrow_apy(deps, msg.params))
    [] msg.variant = "supply_apy" ->
         to_binary_of(query_supply_apy(deps, msg.params))
    [] msg.variant = "market_size" ->
         to_binary_of(query_market_size(deps, msg.params))
    [] msg.variant = "token_market_size" ->
         to_binary_of(query_token_market_size(deps, msg.params))
    [] msg.variant = "reserve_amount" ->
         to_binary_of(query_reserve_amount(deps, msg.params))
    [] msg.variant = "collateral" ->
         to_binary_of(query_collateral(deps, msg.params))
    [] msg.variant = "collateral_value" ->
         to_binary_of(query_collateral_value(deps, msg.params))

\* query_oracle contains the available queries of the oracle module
query_oracle(deps, msg) ==
  CASE msg.variant = "exchange_rates" ->
         to_binary_of(query_exchange_rates(deps, msg.params))

\* query: the dispatcher of QueryMsg
query(deps, msg) ==
  CASE msg.tag = "get_owner" -> to_binary_of(query_owner(deps))
    [] msg.tag = "chain" -> query_chain(deps, msg.request)
    [] msg.tag = "umee" /\ msg.module = "leverage" -> query_leverage(deps, msg)
    [] msg.tag = "umee" /\ msg.module = "oracle" -> query_oracle(deps, msg)
    [] msg.tag = "borrowed" -> to_binary_of(query_borrowed(deps, msg.params))
    [] msg.tag = "exchange_rates" ->
         to_binary_of(query_exchange_rates(deps, msg.params))
    [] msg.tag = "registered_tokens" ->
         to_binary_of(query_registered_tokens(deps, msg.params))
    [] msg.tag = "leverage_parameters" ->
         to_binary_of(query_leverage_parameters(deps, msg.params))
    [] msg.tag = "borrowed_value" ->
         to_binary_of(query_borrowed_value(deps, msg.params))

\* the variants of UmeeQueryLeverage and UmeeQueryOracle, and the direct
\* variants of QueryMsg
UmeeQueryLeverageVariants ==
  {"borrowed", "registered_tokens", "leverage_parameters", "borrowed_value", "supplied", "supplied_value",
   "available_borrow", "borrow_apy", "supply_apy", "market_size",
   "token_market_size", "reserve_amount", "collateral", "collateral_value"}
UmeeQueryOracleVariants == {"exchange_rates"}
QueryDirectVariants ==
  {"borrowed", "exchange_rates", "registered_tokens", "leverage_parameters",
   "borrowed_value"}

\* --------------------------------------------------------------- the host
\* The response struct the chain answers each native query with
ResponseOf(kind) ==
  CASE kind = "borrowed" -> "BorrowedResponse"
    [] kind = "registered_tokens" -> "RegisteredTokensResponse"
    [] kind = "leverage_parameters" -> "LeverageParametersResponse"
    [] kind = "borrowed_value" -> "BorrowedValueResponse"
    [] kind = "supplied" -> "SuppliedResponse"
    [] kind = "supplied_value" -> "SuppliedValueResponse"
    [] kind = "available_borrow" -> "AvailableBorrowResponse"
    [] kind = "borrow_apy" -> "BorrowAPYResponse"
    [] kind = "supply_apy" -> "SupplyAPYResponse"
    [] kind = "market_size" -> "MarketSizeResponse"
    [] kind = "token_market_size" -> "TokenMarketSizeResponse"
    [] kind = "reserve_amount" -> "ReserveAmountResponse"
    [] kind = "collateral" -> "CollateralResponse"
    [] kind = "collateral_value" -> "CollateralValueResponse"
    [] kind = "exchange_rates" -> "ExchangeRatesResponse"
    [] OTHER -> "AllBalanceResponse"

\* the native query a QueryMsg names: the kind of its request
KindOf(msg) ==
  CASE msg.tag = "chain" -> msg.request.query.kind
    [] msg.tag = "umee" -> msg.variant
    [] OTHER -> msg.tag

\* What the host may answer to the request of msg: a system error, a
\* contract error, a binary that has the shape of the query's response,
\* or one that is not JSON at all.
Replies(msg) ==
  {SystemErr(d) : d \in Vals} \cup {ContractErr(d) : d \in Vals}
  \cup {HostOk(Binary(ResponseOf(KindOf(msg)), v, extra)) : v \in Vals, extra \in BOOLEAN}
  \cup {HostOk(Binary("garbage", 0, FALSE))}

\* --------------------------------------------------------------- inputs
\* the StructUmeeMsg values a caller may put in ExecuteMsg::Chain:
\* any identifier from 0 (unassigned) on, any combination of fields
UmeeMsgs ==
  {StructUmeeMsg(a, l, w) :
     a \in 0..ASSIGNED_MSG_WITHDRAW, l \in {NoParams} \cup Params,
     w \in {NoParams} \cup Params}

ChainRequests ==
  {Custom(StructUmeeQuery(k, p)) : k \in {"borrowed", "exchange_rates"}, p \in Params}
  \cup {Bank(p) : p \in Params}

\* the QueryMsg values whose handler decodes the host's answer
TypedQueries ==
  {QueryUmeeMsg("leverage", v, p) : v \in UmeeQueryLeverageVariants, p \in Params}
  \cup {QueryUmeeMsg("oracle", v, p) : v \in UmeeQueryOracleVariants, p \in Params}
  \cup {QueryDirectMsg(t, p) : t \in QueryDirectVariants, p \in Params}

\* the QueryMsg values whose handler calls the host
ForwardedQueries == {QueryChainMsg(r) : r \in ChainRequests} \cup TypedQueries

\* ---------------------------------------------------------------- state
VARIABLES
  storage,   \* the contract's storage: STATE and the cw2 contract info
  call,      \* the entry-point call in progress or, when none is, the last
             \* one that returned, with its result
  first,     \* history: the sender of instantiate, as long as no ChangeOwner
             \* was executed since; NoAddr before and after
  prev       \* history: what the call before `call` returned, when it was a
             \* query with the same message as `call` (kept by SpecSeq)

vars == <<storage, call, first, prev>>

NoMsg == [tag |-> "none"]
NoReply == [kind |-> "none", detail |-> 0, value |-> NoBinary]
NoResult == [ok |-> FALSE]
NoPrev == [same |-> FALSE, ok |-> FALSE, val |-> 0]

\* the record of a call: entry point, phase ("called" while the handler is
\* blocked in raw_query, "returned" afterwards), sender (NoAddr for a
\* query), message, host reply (NoReply when the host did not answer),
\* storage before the call, result
Call(entry, phase, sender, msg, reply, before, res) ==
  [entry |-> entry, phase |-> phase, sender |-> sender, msg |-> msg,
   reply |-> reply, before |-> before, res |-> res]

Deps(st, reply) == [storage |-> st, querier |-> [reply |-> reply]]
Info(sender) == [sender |-> sender]

Idle == call.phase = "returned"

Init ==
  /\ storage = EmptyStorage
  /\ call = Call("none", "returned", NoAddr, NoMsg, NoReply, EmptyStorage, NoResult)
  /\ first = NoAddr
  /\ prev = NoPrev

\* the runtime calls instantiate once, before anything else
Instantiate ==
  /\ ~storage.saved
  /\ Idle
  /\ \E sender \in Addrs :
       LET res == instantiate(Deps(storage, NoReply), Info(sender))
       IN /\ storage' = res.storage
          /\ call' = Call("instantiate", "returned", sender, [tag |-> "instantiate"],
                          NoReply, storage, res)
          /\ first' = sender
  /\ UNCHANGED prev

\* one call of execute: the handler's result and the storage it leaves
Executed(sender, msg) ==
  LET res == execute(Deps(storage, NoReply), Info(sender), msg)
  IN /\ storage' = res.storage
     /\ call' = Call("execute", "returned", sender, msg, NoReply, storage, res)

ExecuteChangeOwner ==
  /\ storage.saved
  /\ Idle
  /\ \E sender \in Addrs, new_owner \in Addrs : Executed(sender, ChangeOwner(new_owner))
  /\ first' = NoAddr
  /\ UNCHANGED prev

ExecuteChain ==
  /\ storage.saved
  /\ Idle
  /\ \E sender \in Addrs, umee_msg \in UmeeMsgs : Executed(sender, ExecChainMsg(umee_msg))
  /\ UNCHANGED <<first, prev>>

ExecuteUmeeLeverage ==
  /\ storage.saved
  /\ Idle
  /\ \E sender \in Addrs, variant \in UmeeMsgLeverageVariants, params \in Params :
       Executed(sender, ExecUmeeLeverageMsg(variant, params))
  /\ UNCHANGED <<first, prev>>

ExecuteLendAsset ==
  /\ storage.saved
  /\ Idle
  /\ \E sender \in Addrs, params \in Params : Executed(sender, ExecLendAssetMsg(params))
  /\ UNCHANGED <<first, prev>>

\* query GetOwner: answered from the storage, the host is not called
QueryGetOwner ==
  /\ storage.saved
  /\ Idle
  /\ call' = Call("query", "returned", NoAddr, GetOwner, NoReply, storage,
                  query(Deps(storage, NoReply), GetOwner))
  /\ UNCHANGED <<storage, first, prev>>

\* a forwarded query is called: its handler runs up to raw_query
Called(msg) ==
  /\ storage.saved
  /\ Idle
  /\ call' = Call("query", "called", NoAddr, msg, NoReply, storage, NoResult)
  /\ UNCHANGED <<storage, first>>

QueryCall ==
  /\ \E msg \in ForwardedQueries : Called(msg)
  /\ UNCHANGED prev

\* fault: the query entry point is handed DepsMut and clears the record
QueryReturn_Writes ==
  /\ call.phase = "called"
  /\ \E reply \in Replies(call.msg) :
       call' = [call EXCEPT !.phase = "returned", !.reply = reply,
                            !.res = query(Deps(storage, reply), call.msg)]
  /\ storage' = EmptyStorage
  /\ UNCHANGED <<first, prev>>

\* the host answers and the handler runs to its end; query holds Deps,
\* which gives no write access to the storage
QueryReturn ==
  /\ call.phase = "called"
  /\ \E reply \in Replies(call.msg) :
       call' = [call EXCEPT !.phase = "returned", !.reply = reply,
                            !.res = query(Deps(storage, reply), call.msg)]
  /\ UNCHANGED <<storage, first, prev>>

Next ==
  \/ Instantiate
  \/ ExecuteChangeOwner
  \/ ExecuteChain
  \/ ExecuteUmeeLeverage
  \/ ExecuteLendAsset
  \/ QueryGetOwner
  \/ QueryCall
  \/ QueryReturn

Spec == Init /\ [][Next]_vars

\* The same contract, observed over consecutive queries: a typed query is
\* called and prev keeps what the query before it returned when that one
\* carried the same message.
QueryCallSeq ==
  /\ \E msg \in TypedQueries :
       /\ Called(msg)
       /\ prev' = IF call.entry = "query" /\ call.msg = msg
                    THEN [same |-> TRUE, ok |-> call.res.ok,
                          val |-> IF call.res.ok THEN call.res.data.val ELSE 0]
                    ELSE NoPrev

NextSeq ==
  \/ Instantiate
  \/ QueryCallSeq
  \/ QueryReturn

SpecSeq == Init /\ [][NextSeq]_vars

\* ================================================================ claims
IsExecute(tag) == call.entry = "execute" /\ call.msg.tag = tag
IsPassThrough == call.entry = "execute" /\ call.msg.tag \in {"chain", "umee", "lend_asset"}
Returned(entry) == call.entry = entry /\ call.phase = "returned"

\* the Binary a GetOwner query returns for owner
OwnerBinary(owner) == Binary("OwnerResponse", owner, FALSE)

\* what a GetOwner query issued in the current state returns
GetOwnerNow == query(Deps(storage, NoReply), GetOwner)

\* C1: after instantiate by sender s the stored owner is s, and a GetOwner
\* query issued before any ChangeOwner returns OwnerResponse{owner: s}.
C1_InstantiateSetsOwner ==
  /\ call.entry = "instantiate" =>
       /\ call.res.ok
       /\ storage.saved
       /\ storage.state.owner = call.sender
  /\ (Returned("query") /\ call.msg.tag = "get_owner" /\ first # NoAddr) =>
       /\ call.res.ok
       /\ call.res.data = OwnerBinary(first)

C1_Witness ==
  /\ Returned("query") /\ call.msg.tag = "get_owner"
  /\ first = NumAddrs
  /\ call.res.ok /\ call.res.data.val = NumAddrs

\* C2: ChangeOwner sent by an address other than the stored owner returns
\* Unauthorized and leaves the stored owner as it was, whatever new_owner
\* is (the sender included): a following GetOwner returns the same owner.
C2_NonOwnerRejected ==
  (IsExecute("change_owner") /\ call.sender # call.before.state.owner) =>
     /\ ~call.res.ok
     /\ call.res.err = Unauthorized
     /\ storage = call.before
     /\ GetOwnerNow.ok
     /\ GetOwnerNow.data = OwnerBinary(call.before.state.owner)

C2_Witness ==
  /\ IsExecute("change_owner")
  /\ call.sender # call.before.state.owner
  /\ call.msg.new_owner = call.sender
  /\ call.res.err = Unauthorized

\* C3: ChangeOwner sent by the stored owner succeeds and stores new_owner:
\* a following GetOwner returns new_owner.
C3_OwnerChanges ==
  (IsExecute("change_owner") /\ call.sender = call.before.state.owner) =>
     /\ call.res.ok
     /\ storage.state.owner = call.msg.new_owner
     /\ GetOwnerNow.ok
     /\ GetOwnerNow.data = OwnerBinary(call.msg.new_owner)

C3_Witness ==
  /\ IsExecute("change_owner")
  /\ call.sender = call.before.state.owner
  /\ call.msg.new_owner # call.sender
  /\ call.res.ok
  /\ storage.state.owner = call.msg.new_owner

\* the addresses whose ChangeOwner the contract would accept now
Authorized ==
  {a \in Addrs : \A new_owner \in Addrs :
     try_change_owner(Deps(storage, NoReply), Info(a), new_owner).ok}

\* C4: after instantiation exactly one address is authorized to change the
\* owner, the stored owner, and authorization follows ownership: the owner
\* changes only by a ChangeOwner of the current owner, every ChangeOwner is
\* accepted exactly when its sender is the owner at that moment, and once a
\* has transferred to b (b # a), a is no longer authorized and b is, at once.
C4_AuthorizationFollowsOwnership ==
  /\ [](storage.saved => Authorized = {storage.state.owner})
  /\ [][/\ (storage.saved /\ storage'.state.owner # storage.state.owner) =>
             /\ call'.entry = "execute" /\ call'.msg.tag = "change_owner"
             /\ call'.sender = storage.state.owner
             /\ call'.res.ok
             /\ storage'.state.owner = call'.msg.new_owner
        /\ (call'.entry = "execute" /\ call'.msg.tag = "change_owner"
              /\ <<storage, call>>' # <<storage, call>>) =>
             /\ call'.res.ok <=> call'.sender = storage.state.owner
             /\ ~call'.res.ok => call'.res.err = Unauthorized
             /\ (call'.res.ok /\ call'.msg.new_owner # call'.sender) =>
                  /\ call'.sender \notin Authorized'
                  /\ call'.msg.new_owner \in Authorized']_vars

C4_Witness ==
  /\ IsExecute("change_owner")
  /\ call.res.ok
  /\ call.msg.new_owner # call.sender
  /\ call.sender \notin Authorized
  /\ Authorized = {call.msg.new_owner}

\* C5: executing Chain, Umee(Leverage(..)) or LendAsset, whether it succeeds
\* or fails and whoever sends it, leaves the storage (the stored owner
\* included) as it was.
C5_PassThroughLeavesStorage ==
  IsPassThrough => storage = call.before

C5_Witness ==
  /\ IsExecute("lend_asset")
  /\ call.sender # storage.state.owner
  /\ call.res.ok
  /\ storage = call.before

\* C6: a query of any variant, whatever the host answers (errors included),
\* leaves the storage as it was before the query.
C6_QueriesLeaveStorage ==
  call.entry = "query" => storage = call.before

C6_Witness ==
  /\ Returned("query")
  /\ call.msg.tag = "umee"
  /\ call.reply.kind = "system_err"
  /\ ~call.res.ok
  /\ storage = call.before

\* C7: the responses of instantiate and of a successful ChangeOwner carry no
\* message, a successful Chain, Umee(Leverage(LendAsset|WithdrawAsset)) or
\* LendAsset carries exactly one, and an execute that fails emits none.
C7_MessageCount ==
  /\ call.entry = "instantiate" => Len(call.res.messages) = 0
  /\ (IsExecute("change_owner") /\ call.res.ok) => Len(call.res.messages) = 0
  /\ (IsPassThrough /\ call.res.ok) => Len(call.res.messages) = 1
  /\ (call.entry = "execute" /\ ~call.res.ok) => Len(call.res.messages) = 0

C7_Witness ==
  /\ IsExecute("umee")
  /\ call.msg.variant = "withdraw_asset"
  /\ call.res.ok
  /\ Len(call.res.messages) = 1

\* ------------------------------------------------------ the routing table
IsTyped(msg) == msg.tag = "umee" \/ msg.tag \in QueryDirectVariants

\* the nested form Umee(Leverage(..)) / Umee(Oracle(..)) of a direct
\* QueryMsg variant
NestedForm(msg) ==
  QueryUmeeMsg(IF msg.tag = "exchange_rates" THEN "oracle" ELSE "leverage",
               msg.tag, msg.params)

\* the request a typed query hands to the host (whatever the host answers)
RequestOf(msg) == query(Deps(storage, SystemErr(1)), msg).sent[1].json

\* the nested queries of the two modules
NestedQueries(params) ==
  {QueryUmeeMsg("leverage", v, params) : v \in UmeeQueryLeverageVariants}
  \cup {QueryUmeeMsg("oracle", v, params) : v \in UmeeQueryOracleVariants}

\* C8: the routing table is one-to-one.  A leverage/oracle query variant is
\* forwarded as the native request built for that variant from its params,
\* no other variant produces a request of that kind, and the reply is
\* decoded with the variant's own response type (a reply of that shape is
\* returned re-encoded, a reply of another shape is a parse error); a direct
\* shortcut, QueryMsg or ExecuteMsg::LendAsset, gives exactly the result of
\* its nested form on the same params and the same host answer.
C8_RoutingOneToOne ==
  /\ (Returned("query") /\ IsTyped(call.msg)) =>
       /\ call.res.sent =
            <<[json |-> Custom(StructUmeeQuery(KindOf(call.msg), call.msg.params))]>>
       /\ \A other \in NestedQueries(call.msg.params) :
            KindOf(other) # KindOf(call.msg) =>
              RequestOf(other).query.kind # call.res.sent[1].json.query.kind
       /\ call.reply.kind = "ok" =>
            IF call.reply.value.shape = ResponseOf(KindOf(call.msg))
              THEN /\ call.res.ok
                   /\ call.res.data =
                        Binary(ResponseOf(KindOf(call.msg)), call.reply.value.val, FALSE)
              ELSE /\ ~call.res.ok
                   /\ call.res.err = parse_err(ResponseOf(KindOf(call.msg)))
  /\ (Returned("query") /\ call.msg.tag \in QueryDirectVariants) =>
       call.res = query(Deps(call.before, call.reply), NestedForm(call.msg))
  /\ IsExecute("lend_asset") =>
       call.res = execute(Deps(call.before, NoReply), Info(call.sender),
                          ExecUmeeLeverageMsg("lend_asset", call.msg.params))

C8_Witness ==
  /\ Returned("query")
  /\ call.msg.tag = "umee"
  /\ call.msg.variant = "collateral_value"
  /\ call.msg.params = NumParams
  /\ call.res.ok
  /\ call.res.data.shape = "CollateralValueResponse"
  /\ call.res.sent[1].json.query.kind = "collateral_value"

\* C9: a typed query handler calls the host exactly once per query and,
\* when the host answers with a value that decodes, returns that value: of
\* two identical queries in sequence each reaches the host, and the second
\* returns what the host answered to the second call.
C9_OneHostCallPerQuery ==
  (Returned("query") /\ IsTyped(call.msg)) =>
     /\ Len(call.res.sent) = 1
     /\ (call.reply.kind = "ok"
           /\ call.reply.value.shape = ResponseOf(KindOf(call.msg))) =>
          /\ call.res.ok
          /\ call.res.data.val = call.reply.value.val
          /\ call.res.data.shape = call.reply.value.shape

C9_Witness ==
  /\ Returned("query") /\ IsTyped(call.msg)
  /\ prev.same /\ prev.ok
  /\ call.res.ok
  /\ Len(call.res.sent) = 1
  /\ call.res.data.val # prev.val
  /\ call.res.data.val = call.reply.value.val

\* C10: query_chain maps the three host outcomes to three distinguishable
\* results: a system error to an error tagged "Querier system error", a
\* contract error to one tagged "Querier contract error", a success to the
\* host's binary; QueryMsg::Chain returns that binary as the host gave it.
C10_ChainOutcomes ==
  (Returned("query") /\ call.msg.tag = "chain") =>
     CASE call.reply.kind = "system_err" ->
            /\ ~call.res.ok
            /\ call.res.err = generic_err("Querier system error", call.reply.detail)
       [] call.reply.kind = "contract_err" ->
            /\ ~call.res.ok
            /\ call.res.err = generic_err("Querier contract error", call.reply.detail)
       [] call.reply.kind = "ok" ->
            /\ call.res.ok
            /\ call.res.data = call.reply.value
       [] OTHER -> FALSE

C10_Witness ==
  /\ Returned("query") /\ call.msg.tag = "chain"
  /\ call.reply.kind = "ok"
  /\ call.reply.value.extra
  /\ call.res.ok
  /\ call.res.data = call.reply.value

\* C11: a typed query handler never returns success when its host call
\* failed or the reply did not decode: an error of query_chain is returned
\* as it is, a decode failure as the decode error, and in neither case does
\* the result carry a response.
C11_NoSuccessOnFailure ==
  (Returned("query") /\ IsTyped(call.msg)) =>
     LET type == ResponseOf(KindOf(call.msg))
         request == Custom(StructUmeeQuery(KindOf(call.msg), call.msg.params))
         chain == query_chain(Deps(call.before, call.reply), request)
     IN /\ call.reply.kind # "ok" =>
             /\ ~call.res.ok
             /\ ~chain.ok
             /\ call.res.err = chain.err
             /\ call.res.err.kind = "generic_err"
             /\ call.res.err.detail = call.reply.detail
             /\ call.res.data = NoBinary
        /\ (call.reply.kind = "ok" /\ call.reply.value.shape # type) =>
             /\ ~call.res.ok
             /\ call.res.err = parse_err(type)
             /\ call.res.data = NoBinary
        /\ call.res.ok => (call.reply.kind = "ok" /\ call.reply.value.shape = type)

C11_Witness ==
  /\ Returned("query")
  /\ call.msg.tag = "registered_tokens"
  /\ call.reply.kind = "ok"
  /\ call.reply.value.shape = "garbage"
  /\ ~call.res.ok
  /\ call.res.err = parse_err("RegisteredTokensResponse")

\* C12: ExecuteMsg::Chain forwards a message only if it is valid.  When
\* umee_msg.valid() is false the result is CustomError{val: "invalid umee
\* msg"} and nothing is emitted; when it is true the response carries exactly
\* that message, unmodified, and the one attribute method = assigned_str().
C12_ChainForwardsValidOnly ==
  IsExecute("chain") =>
     IF valid(call.msg.msg)
       THEN /\ call.res.ok
            /\ call.res.messages = <<call.msg.msg>>
            /\ call.res.attributes = <<Attr("method", assigned_str(call.msg.msg))>>
       ELSE /\ ~call.res.ok
            /\ call.res.err = CustomError("invalid umee msg")
            /\ call.res.messages = <<>>
            /\ call.res.attributes = <<>>

C12_Witness ==
  /\ IsExecute("chain")
  /\ call.msg.msg.assigned_msg = ASSIGNED_MSG_WITHDRAW
  /\ call.msg.msg.lend_asset # NoParams
  /\ call.msg.msg.withdraw_asset # NoParams
  /\ call.res.ok
  /\ call.res.messages = <<call.msg.msg>>

\* ------------------------------------------- the leverage message catalog
\* cw-umee-types: "All the messages must have an assigned msg."
\* (ASSIGNED_MSG_WITHDRAW is defined with the chain messages above)
ASSIGNED_MSG_SUPPLY == 1
ASSIGNED_MSG_COLLATERALIZE == 3
ASSIGNED_MSG_DECOLLATERALIZE == 4
ASSIGNED_MSG_BORROW == 5
ASSIGNED_MSG_REPAY == 6
ASSIGNED_MSG_LIQUIDATE == 7
ASSIGNED_MSG_SUPPLY_COLLATERALIZE == 8

\* fault: a new identifier is copied from the line above and not renumbered
ASSIGNED_MSG_MAX_WITHDRAW_Copied == ASSIGNED_MSG_SUPPLY_COLLATERALIZE

ASSIGNED_MSG_MAX_WITHDRAW == 9

\* the variants of UmeeMsgLeverage (cw-umee-types), by their serde names
UmeeMsgLeverage ==
  {"supply", "withdraw", "max_with_draw", "collateralize", "decollateralize",
   "borrow", "repay", "liquidate", "supply_collateral"}

\* the identifier assigned to each variant: the constant that bears its name
assigned_msg(variant) ==
  CASE variant = "supply" -> ASSIGNED_MSG_SUPPLY
    [] variant = "withdraw" -> ASSIGNED_MSG_WITHDRAW
    [] variant = "max_with_draw" -> ASSIGNED_MSG_MAX_WITHDRAW
    [] variant = "collateralize" -> ASSIGNED_MSG_COLLATERALIZE
    [] variant = "decollateralize" -> ASSIGNED_MSG_DECOLLATERALIZE
    [] variant = "borrow" -> ASSIGNED_MSG_BORROW
    [] variant = "repay" -> ASSIGNED_MSG_REPAY
    [] variant = "liquidate" -> ASSIGNED_MSG_LIQUIDATE
    [] variant = "supply_collateral" -> ASSIGNED_MSG_SUPPLY_COLLATERALIZE

\* Two leverage messages are built and the identifier of each is recorded.
AssignMsg ==
  /\ Idle
  /\ \E left \in UmeeMsgLeverage, right \in UmeeMsgLeverage,
        lparams \in Params, rparams \in Params :
       call' = Call("assign", "returned", NoAddr,
                    [tag |-> "assign",
                     left |-> [variant |-> left, params |-> lparams],
                     right |-> [variant |-> right, params |-> rparams]],
                    NoReply, storage,
                    [ok |-> TRUE, left |-> assigned_msg(left),
                     right |-> assigned_msg(right)])
  /\ UNCHANGED <<storage, first, prev>>

NextAssigned == AssignMsg

SpecAssigned == Init /\ [][NextAssigned]_vars

AssignedMsgs ==
  {ASSIGNED_MSG_SUPPLY, ASSIGNED_MSG_WITHDRAW, ASSIGNED_MSG_COLLATERALIZE,
   ASSIGNED_MSG_DECOLLATERALIZE, ASSIGNED_MSG_BORROW, ASSIGNED_MSG_REPAY,
   ASSIGNED_MSG_LIQUIDATE, ASSIGNED_MSG_SUPPLY_COLLATERALIZE,
   ASSIGNED_MSG_MAX_WITHDRAW}

\* C13: each assigned identifier of the leverage module names exactly one
\* message: the nine ASSIGNED_MSG_* constants are pairwise distinct and cover
\* 1..9 without gaps, and each of the nine UmeeMsgLeverage variants has its
\* own identifier (two messages carry the same identifier exactly when they
\* are the same variant).
C13_AssignedMsgsDistinct ==
  /\ Cardinality(AssignedMsgs) = 9
  /\ AssignedMsgs = 1..9
  /\ Cardinality(UmeeMsgLeverage) = 9
  /\ call.entry = "assign" =>
       /\ call.res.left \in 1..9
       /\ call.res.right \in 1..9
       /\ (call.res.left = call.res.right) <=>
            (call.msg.left.variant = call.msg.right.variant)

C13_Witness ==
  /\ call.entry = "assign"
  /\ call.msg.left.variant = "max_with_draw"
  /\ call.msg.right.variant = "supply_collateral"
  /\ call.res.left = 9
  /\ call.res.right = 8

\* the value of the "method" attribute of a response
MethodOf(res) == res.attributes[1].value

\* the message a withdraw or a lend emits: StructUmeeMsg::withdraw_asset(params)
\* and StructUmeeMsg::lend_asset(params)
C14_EmittedMessages ==
  /\ (IsExecute("umee") /\ call.msg.variant = "withdraw_asset") =>
       call.res.messages = <<StructUmeeMsg_withdraw_asset(call.msg.params)>>
  /\ (IsExecute("lend_asset")
        \/ (IsExecute("umee") /\ call.msg.variant = "lend_asset")) =>
       call.res.messages = <<StructUmeeMsg_lend_asset(call.msg.params)>>

\* C14: the "method" attribute of an execute response names the operation
\* performed: the response to Umee(Leverage(WithdrawAsset)) carries a method
\* that differs from the method of a LendAsset response, and the emitted
\* message is withdraw_asset(params) for a withdraw, lend_asset(params) for
\* a lend.
C14_MethodNamesOperation ==
  /\ C14_EmittedMessages
  /\ (IsExecute("umee") /\ call.msg.variant = "withdraw_asset") =>
       /\ call.res.ok
       /\ call.res.attributes[1].key = "method"
       /\ MethodOf(call.res) # MethodOf(execute_lend(call.msg.params))

\* the result of an execute without the storage it leaves behind
ResultOf(res) ==
  [ok |-> res.ok, err |-> res.err, attributes |-> res.attributes,
   messages |-> res.messages]

\* C15: only the owner change is gated.  Chain with a valid message,
\* Umee(Leverage(..)) and LendAsset succeed and emit their one message for
\* every sender, the owner or not, and their result is the same whoever
\* sends them and whoever the stored owner is.
C15_OnlyOwnerChangeGated ==
  IsPassThrough =>
    /\ (call.msg.tag = "chain" => call.res.ok = valid(call.msg.msg))
    /\ (call.msg.tag # "chain" => call.res.ok)
    /\ (call.res.ok => Len(call.res.messages) = 1)
    /\ call.res.err # Unauthorized
    /\ \A sender \in Addrs, owner \in Addrs :
         ResultOf(execute(Deps([call.before EXCEPT !.state.owner = owner], NoReply),
                          Info(sender), call.msg))
           = ResultOf(call.res)

C15_Witness ==
  /\ IsExecute("umee")
  /\ call.before.saved
  /\ call.sender # call.before.state.owner
  /\ call.res.ok
  /\ Len(call.res.messages) = 1

====
